---- MODULE Spec2Model ----
(***************************************************************************)
(* Model of TranslationWorker (english_to_swedish_subtitle_translator.py): *)
(* the batch driver run/process_file, the retrying translate_text client,  *)
(* the placeholder protector and the target-path / skip logic.             *)
(*                                                                         *)
(* Strings are sequences of symbols.  A symbol is one character ("a", ".", *)
(* "<") or one indivisible unit that the code's regular expressions can    *)
(* only match as a whole: a timecode "HH:MM:SS,mmm" (symbols "T1", "T2")   *)
(* and the name part of a placeholder ("TIME_0", "BTAG_1", ...).           *)
(***************************************************************************)
EXTENDS Integers, Sequences, FiniteSets, TLC

\* ------------------------------------------------------------------------
\* Bounds of the model
\* ------------------------------------------------------------------------
\* Longest job (number of files handed to the worker).
MaxFiles == 2
\* Most HTTP attempts the endpoint lets fail within one run.
MaxFailures == 3
\* Pieces a block text of the direct calls is put together from, at most.
MaxParts == 4
\* Most blocks of a subtitle text handed to parse_srt directly.
MaxBlocks == 2
\* Longest advanced prompt handed to generate_system_prompt directly.
MaxOverride == 3

\* ------------------------------------------------------------------------
\* Program constants
\* ------------------------------------------------------------------------
RETRY_COUNT == 2
RETRY_DELAY == 5

\* The language codes of LANGUAGES, in source order.
LANGUAGES ==
  << <<"d","e">>, <<"f","r">>, <<"e","s">>, <<"i","t">>,
     <<"p","t">>, <<"r","u">>, <<"j","a">>, <<"k","o">>,
     <<"z","h","-","C","N">>, <<"z","h","-","T","W">>, <<"a","r">>,
     <<"h","i">>, <<"t","r">>, <<"n","l">>, <<"p","l">>,
     <<"s","v">>, <<"n","o">>, <<"d","a">>, <<"f","i">>,
     <<"e","l">>, <<"c","s">>, <<"h","u">>, <<"t","h">>,
     <<"v","i">>, <<"i","d">>, <<"r","o">>, <<"u","k">> >>

LangCodes == { LANGUAGES[i] : i \in 1..Len(LANGUAGES) }

\* ------------------------------------------------------------------------
\* Characters and string helpers (str.lower, "in", str.replace)
\* ------------------------------------------------------------------------
LowerAlpha ==
  << "a","b","c","d","e","f","g","h","i","j","k","l","m",
     "n","o","p","q","r","s","t","u","v","w","x","y","z" >>
UpperAlpha ==
  << "A","B","C","D","E","F","G","H","I","J","K","L","M",
     "N","O","P","Q","R","S","T","U","V","W","X","Y","Z" >>

IsLetter(c) == \E i \in 1..26 : LowerAlpha[i] = c \/ UpperAlpha[i] = c

\* str.lower() on one character, then on a string.
LowerChar(c) ==
  IF \E i \in 1..26 : UpperAlpha[i] = c
  THEN LowerAlpha[CHOOSE i \in 1..26 : UpperAlpha[i] = c]
  ELSE c

Lower(s) == [i \in 1..Len(s) |-> LowerChar(s[i])]

\* needle occurs in hay at position p (1-based).
OccursAt(hay, needle, p) ==
  /\ p >= 1
  /\ p + Len(needle) - 1 <= Len(hay)
  /\ \A k \in 1..Len(needle) : hay[p + k - 1] = needle[k]

\* Python's "needle in hay".
Contains(hay, needle) == \E p \in 1..(Len(hay) + 1) : OccursAt(hay, needle, p)

\* Position of the last "." of s, 0 when there is none (str.rfind + 1).
LastDot(s) ==
  IF \E i \in 1..Len(s) : s[i] = "."
  THEN CHOOSE i \in 1..Len(s) : s[i] = "." /\ \A j \in (i+1)..Len(s) : s[j] # "."
  ELSE 0

\* ------------------------------------------------------------------------
\* get_target_path (file names without their directory: path.parent is
\* carried over unchanged by the code)
\* ------------------------------------------------------------------------
\* pathlib: PurePath.suffix / PurePath.stem of the final component.
PathSuffix(name) ==
  LET i == LastDot(name)
  IN IF i > 1 /\ i < Len(name) THEN SubSeq(name, i, Len(name)) ELSE << >>

PathStem(name) ==
  LET i == LastDot(name)
  IN IF i > 1 /\ i < Len(name) THEN SubSeq(name, 1, i - 1) ELSE name

\* [a-z]{2,3} under re.IGNORECASE
Letters23(t) == Len(t) \in 2..3 /\ \A i \in 1..Len(t) : IsLetter(t[i])

\* [a-z]{2,3}(-[a-zA-Z]{2,3})?$ matched against the whole tail t
LangTail(t) ==
  \/ Letters23(t)
  \/ \E k \in 1..Len(t) :
       /\ t[k] = "-"
       /\ Letters23(SubSeq(t, 1, k - 1))
       /\ Letters23(SubSeq(t, k + 1, Len(t)))

\* re.sub(r'\.[a-z]{2,3}(-[a-zA-Z]{2,3})?$', '', stem, flags=re.IGNORECASE):
\* the pattern is anchored at the end and its body has no ".", so the only
\* candidate match starts at the last "." of the stem.
StripLang(stem) ==
  LET i == LastDot(stem)
  IN IF i >= 1 /\ LangTail(SubSeq(stem, i + 1, Len(stem)))
     THEN SubSeq(stem, 1, i - 1)
     ELSE stem

get_target_path(file_path, lang) ==
  StripLang(PathStem(file_path)) \o <<".">> \o lang \o PathSuffix(file_path)

\* f".{self.target_lang}." in file_path.lower()
HasLangCode(file_path, lang) ==
  Contains(Lower(file_path), <<".">> \o lang \o <<".">>)

\* ------------------------------------------------------------------------
\* Placeholder protector: protect_content / restore_content
\* ------------------------------------------------------------------------
\* Symbols that stand for one literal timecode \d{2}:\d{2}:\d{2},\d{3}.
TimeSyms == {"T1", "T2"}

\* Name part of the placeholders f"<TIME_{idx}>", f"<BTAG_{idx}>", f"<ETAG_{idx}>".
TimeNames == << "TIME_0", "TIME_1", "TIME_2", "TIME_3", "TIME_4", "TIME_5", "TIME_6", "TIME_7" >>
BTagNames == << "BTAG_0", "BTAG_1", "BTAG_2", "BTAG_3", "BTAG_4", "BTAG_5", "BTAG_6", "BTAG_7" >>
ETagNames == << "ETAG_0", "ETAG_1", "ETAG_2", "ETAG_3", "ETAG_4", "ETAG_5", "ETAG_6", "ETAG_7" >>

TimePlaceholder(idx) == << "<", TimeNames[idx + 1], ">" >>
BTagPlaceholder(idx) == << "<", BTagNames[idx + 1], ">" >>
ETagPlaceholder(idx) == << "<", ETagNames[idx + 1], ">" >>

\* str.replace(old, new): every non-overlapping occurrence, left to right.
RECURSIVE ReplaceFrom(_, _, _, _)
ReplaceFrom(s, old, new, p) ==
  IF p > Len(s) THEN << >>
  ELSE IF OccursAt(s, old, p)
       THEN new \o ReplaceFrom(s, old, new, p + Len(old))
       ELSE << s[p] >> \o ReplaceFrom(s, old, new, p + 1)

Replace(s, old, new) == ReplaceFrom(s, old, new, 1)

\* re.findall(r'\d{2}:\d{2}:\d{2},\d{3}', text)
FindTimecodes(text) == SelectSeq(text, LAMBDA c : c \in TimeSyms)

\* re.findall(r'<([^>]+)>', text), each hit given back as f"<{tag}>".
\* A match at p needs "<" at p, then one or more characters other than ">",
\* then ">": it ends at the first ">" after p unless that is right at p+1.
RECURSIVE FindTagsFrom(_, _)
FindTagsFrom(s, p) ==
  IF p > Len(s) THEN << >>
  ELSE IF /\ s[p] = "<"
          /\ \E q \in (p + 2)..Len(s) :
               s[q] = ">" /\ \A j \in (p + 1)..(q - 1) : s[j] # ">"
       THEN LET q == CHOOSE q \in (p + 2)..Len(s) :
                       s[q] = ">" /\ \A j \in (p + 1)..(q - 1) : s[j] # ">"
            IN << SubSeq(s, p, q) >> \o FindTagsFrom(s, q + 1)
       ELSE FindTagsFrom(s, p + 1)

FindTags(text) == FindTagsFrom(text, 1)

\* The "for idx, tc in enumerate(timecodes)" loop, iterations idx..end.
\* st = [text |-> protected_text, map |-> replacements]; the dict is kept as
\* the sequence of its (placeholder, original) items in insertion order.
RECURSIVE ProtectTimes(_, _, _)
ProtectTimes(st, timecodes, idx) ==
  IF idx >= Len(timecodes) THEN st
  ELSE LET tc == << timecodes[idx + 1] >>
           placeholder == TimePlaceholder(idx)
       IN ProtectTimes([text |-> Replace(st.text, tc, placeholder),
                        map  |-> Append(st.map, << placeholder, tc >>)],
                       timecodes, idx + 1)

\* Mutant: closing tags get the marker of the opening tags.
TagPlaceholder_AlwaysB(full_tag, idx) == BTagPlaceholder(idx)

\* The "for idx, tag in enumerate(tags)" loop.
TagPlaceholder(full_tag, idx) ==
  IF Len(full_tag) >= 2 /\ full_tag[2] = "/"
  THEN ETagPlaceholder(idx)
  ELSE BTagPlaceholder(idx)

\* Mutant: the map keeps the tag without its brackets (tag, not full_tag).
RECURSIVE ProtectTags_StoresTag(_, _, _)
ProtectTags_StoresTag(st, tags, idx) ==
  IF idx >= Len(tags) THEN st
  ELSE LET full_tag == tags[idx + 1]
           placeholder == TagPlaceholder(full_tag, idx)
       IN ProtectTags_StoresTag(
            [text |-> Replace(st.text, full_tag, placeholder),
             map  |-> Append(st.map, << placeholder,
                                        SubSeq(full_tag, 2, Len(full_tag) - 1) >>)],
            tags, idx + 1)

RECURSIVE ProtectTags(_, _, _)
ProtectTags(st, tags, idx) ==
  IF idx >= Len(tags) THEN st
  ELSE LET full_tag == tags[idx + 1]
           placeholder == TagPlaceholder(full_tag, idx)
       IN ProtectTags([text |-> Replace(st.text, full_tag, placeholder),
                       map  |-> Append(st.map, << placeholder, full_tag >>)],
                      tags, idx + 1)

\* protect_content(text) -> (protected_text, replacements).  Both findall
\* calls read the original text; the replacements act on protected_text.
protect_content(text) ==
  ProtectTags(ProtectTimes([text |-> text, map |-> << >>],
                           FindTimecodes(text), 0),
              FindTags(text), 0)

\* restore_content(text, replacements): dict items in insertion order.
RECURSIVE RestoreFrom(_, _, _)
RestoreFrom(text, replacements, k) ==
  IF k > Len(replacements) THEN text
  ELSE RestoreFrom(Replace(text, replacements[k][1], replacements[k][2]),
                   replacements, k + 1)

restore_content(text, replacements) == RestoreFrom(text, replacements, 1)

\* ------------------------------------------------------------------------
\* Subtitle codec: parse_srt / save_srt
\* ------------------------------------------------------------------------
Digits == {"0", "1", "2", "3", "4", "5", "6", "7", "8", "9"}
\* The literal " --> " of a time-range line, one symbol.
Arrow == " --> "
\* Characters str.strip() removes.
Whitespace == {" ", "\n", "\t"}

\* \d{2}:\d{2}:\d{2},\d{3} --> \d{2}:\d{2}:\d{2},\d{3} at position p
RangeAt(s, p) ==
  /\ p + 2 <= Len(s)
  /\ s[p] \in TimeSyms /\ s[p + 1] = Arrow /\ s[p + 2] \in TimeSyms

\* Last position of the run of digits that starts at p (greedy \d+).
RECURSIVE DigitsEnd(_, _)
DigitsEnd(s, p) ==
  IF p + 1 <= Len(s) /\ s[p + 1] \in Digits THEN DigitsEnd(s, p + 1) ELSE p

\* (?=\n\n|$) at position e: a blank line follows, or the input ends
\* ($ also matches just before one final newline).
BlockEndAt(s, e) ==
  \/ e = Len(s) + 1
  \/ e = Len(s) /\ s[e] = "\n"
  \/ e + 1 <= Len(s) /\ s[e] = "\n" /\ s[e + 1] = "\n"

\* [\s\S]*? : the first position from p on where the lookahead holds.
RECURSIVE TextEnd(_, _)
TextEnd(s, e) == IF BlockEndAt(s, e) THEN e ELSE TextEnd(s, e + 1)

\* str.strip()
RECURSIVE LStrip(_)
LStrip(t) ==
  IF t # << >> /\ Head(t) \in Whitespace THEN LStrip(Tail(t)) ELSE t
RECURSIVE RStrip(_)
RStrip(t) ==
  IF t # << >> /\ t[Len(t)] \in Whitespace
  THEN RStrip(SubSeq(t, 1, Len(t) - 1))
  ELSE t
Strip(t) == RStrip(LStrip(t))

\* re.findall(pattern, content) and the loop that builds the block tuples
\* (index, timecode, text), from position p on.
RECURSIVE ParseFrom(_, _)
ParseFrom(s, p) ==
  IF p > Len(s) THEN << >>
  ELSE LET d == DigitsEnd(s, p)
       IN IF /\ s[p] \in Digits
             /\ d + 5 <= Len(s)
             /\ s[d + 1] = "\n"
             /\ RangeAt(s, d + 2)
             /\ s[d + 5] = "\n"
          THEN LET e == TextEnd(s, d + 6)
               IN << [index    |-> SubSeq(s, p, d),
                      timecode |-> SubSeq(s, d + 2, d + 4),
                      text     |-> Strip(SubSeq(s, d + 6, e - 1))] >>
                  \o ParseFrom(s, e)
          ELSE ParseFrom(s, p + 1)

parse_srt(content) == ParseFrom(content, 1)

\* Mutant: the block is ended by one newline, without the blank line.
RECURSIVE SerializeFrom_NoBlankLine(_, _)
SerializeFrom_NoBlankLine(bs, k) ==
  IF k > Len(bs) THEN << >>
  ELSE bs[k].index \o <<"\n">> \o bs[k].timecode \o <<"\n">> \o bs[k].text
       \o <<"\n">> \o SerializeFrom_NoBlankLine(bs, k + 1)

\* save_srt: f"{index}\n{timecode}\n{text}\n\n" for every block, in order.
RECURSIVE SerializeFrom(_, _)
SerializeFrom(bs, k) ==
  IF k > Len(bs) THEN << >>
  ELSE bs[k].index \o <<"\n">> \o bs[k].timecode \o <<"\n">> \o bs[k].text
       \o <<"\n", "\n">> \o SerializeFrom(bs, k + 1)

save_srt(bs) == SerializeFrom(bs, 1)

\* ------------------------------------------------------------------------
\* Prompt builder: generate_system_prompt
\* ------------------------------------------------------------------------
style_map ==
  [s \in {"Natural (recommended)", "Formal", "Simple clear"} |->
     CASE s = "Natural (recommended)" -> "natural"
       [] s = "Formal" -> "formal"
       [] s = "Simple clear" -> "simple and clear"]

\* style_map.get(self.style, "natural")
style_desc(style) ==
  IF style \in DOMAIN style_map THEN style_map[style] ELSE "natural"

\* The f-string prompt: its literal parts, the language code, the style.
GeneratedPrompt(lang, style) ==
  << "Translate the following text from English into " >> \o lang
  \o << ".\n", "Use ", style_desc(style), " style. Important:\n",
        "Only translate the USER text.\n",
        "Keep placeholders like <BTAG_0>, <ETAG_0>, <TIME_0> unchanged.\n",
        "Never translate content inside placeholders.\n",
        "Do NOT add explanations or commentary.\n",
        "Answer with the translated text only." >>

\* Mutant: the override is used in its stripped form.
generate_system_prompt_Stripped(lang, style, advanced_prompt) ==
  IF Strip(advanced_prompt) # << >>
  THEN Strip(advanced_prompt)
  ELSE GeneratedPrompt(lang, style)

\* if self.advanced_prompt.strip(): prompt = self.advanced_prompt
generate_system_prompt(lang, style, advanced_prompt) ==
  IF Strip(advanced_prompt) # << >>
  THEN advanced_prompt
  ELSE GeneratedPrompt(lang, style)

\* ------------------------------------------------------------------------
\* Inputs of the model: files of a job, their contents, endpoint replies
\* ------------------------------------------------------------------------
NameA   == <<"a", ".", "s", "r", "t">>
NameAEn == <<"a", ".", "e", "n", ".", "s", "r", "t">>
NameASv == <<"a", ".", "s", "v", ".", "s", "r", "t">>
NameE   == <<"e", ".", "s", "r", "t">>
\* f"b.{code}.x.srt": a name that holds the code as a dotted segment.
DottedName(code) == <<"b", ".">> \o code \o <<".", "x", ".", "s", "r", "t">>

RangeLine == <<"T1", Arrow, "T2">>

\* Content of the input files.  a.srt: two blocks, the first with a tag pair,
\* the second with a timecode in its text; e.srt: no recognisable block;
\* every other file: one plain block (a.sv.srt is an earlier output kept in
\* the directory of a.srt).
ContentA ==
  <<"1", "\n">> \o RangeLine \o <<"\n", "<", "i", ">", "w", "<", "/", "i", ">", "\n", "\n">>
  \o <<"2", "\n">> \o RangeLine \o <<"\n", "T1", "g", "\n", "\n">>
ContentOne == <<"1", "\n">> \o RangeLine \o <<"\n", "g", "\n", "\n">>
ContentNone == <<"w", "\n", "\n">>

ContentOf(name) ==
  IF name = NameA THEN ContentA
  ELSE IF name = NameE THEN ContentNone
  ELSE ContentOne

\* Target languages of the main specification.
ModelLangs == { <<"s","v">> }

\* File names of the main specification (names that hold the target code as
\* a dotted segment are those of the specification over every language).
FileNames == { NameA, NameAEn, NameASv, NameE }

\* File names of the specification over every language of LANGUAGES.
LangFileNames(lang) == { NameA, DottedName(lang) }

\* Jobs: the non-empty lists of at most MaxFiles distinct names (select_file
\* gives one path, find_srt_files the distinct paths of a directory walk).
Jobs(names) ==
  { j \in UNION { [1..n -> names] : n \in 1..MaxFiles } :
      \A a, b \in 1..Len(j) : a # b => j[a] # j[b] }

\* Reply texts a 200 answer may carry for the user text sent: a translation
\* that keeps the placeholders (a word put before the text), and the empty
\* string.
Replies(user_text) == { <<"o">> \o user_text, << >> }

\* Result of translate_text: None, or a reply string.
None == [ok |-> FALSE, text |-> << >>]
Some(t) == [ok |-> TRUE, text |-> t]
\* Python truthiness of that result ("if not translated_text").
Truthy(r) == r.ok /\ r.text # << >>

\* ------------------------------------------------------------------------
\* State
\* ------------------------------------------------------------------------
VARIABLES
  files,             \* self.files
  target_lang,       \* self.target_lang
  is_cancelled,      \* self._is_cancelled
  fs,                \* the file system: existing path -> content
  pc,                \* position of the worker thread
  idx,               \* run: index of the current file (0-based)
  blocks,            \* process_file: parsed blocks
  block_idx,         \* process_file: index of the current block (0-based)
  translated_blocks, \* process_file: blocks collected for the output
  protected,         \* process_file: (protected_text, replacements)
  attempt,           \* translate_text: loop variable
  translated_text,   \* value returned by translate_text
  events,            \* signals emitted so far, in order
  net,               \* network operations so far: posts and sleeps
  opened,            \* save_srt calls so far: file, path, blocks, success
  observed,          \* checkpoints at which is_cancelled() answered True
  raised,            \* files (idx) whose process_file raised
  exists_seen,       \* files (idx) whose target existed at the skip check
  fatal,             \* an error escaped the per-file guard
  fn,                \* direct call of one method: its name ("" in a run)
  arg,               \* direct call: the argument
  ret                \* direct call: the value returned

vars == << files, target_lang, is_cancelled, fs, pc, idx, blocks, block_idx,
           translated_blocks, protected, attempt, translated_text, events,
           net, opened, observed, raised, exists_seen, fatal, fn, arg, ret >>

jobVars == << files, target_lang >>
fileVars == << blocks, block_idx, translated_blocks, protected, attempt,
               translated_text >>
callVars == << fn, arg, ret >>
\* Everything a run of the worker thread reads or writes.
runVars == << jobVars, is_cancelled, fs, pc, idx, fileVars, events, net,
              opened, observed, raised, exists_seen, fatal >>

\* Signals.
Log(msg, a, b) == [sig |-> "log", msg |-> msg, a |-> a, b |-> b]
Progress(current, total) == [sig |-> "progress", msg |-> "", a |-> current, b |-> total]
Finished == [sig |-> "finished", msg |-> "", a |-> 0, b |-> 0]
Error == [sig |-> "error", msg |-> "Critical error", a |-> 0, b |-> 0]

Emit(es) == events' = events \o es

total_files == Len(files)
file_path == files[idx + 1]
target_path == get_target_path(file_path, target_lang)

\* is_cancelled() returned True at checkpoint `at`.
Observe(at) ==
  observed' = Append(observed, [at |-> at, file |-> idx, block |-> block_idx])

\* One save_srt call: the file it is for, the path, the blocks, the outcome.
SaveCall(ok) ==
  [file |-> idx, path |-> target_path, blocks |-> translated_blocks, ok |-> ok]

\* The worker after construction, for one of the given (target_lang, files).
InitRun(inputs) ==
  /\ \E in \in inputs : target_lang = in[1] /\ files = in[2]
  /\ is_cancelled = FALSE
  /\ fs = [n \in { files[i] : i \in 1..Len(files) } |-> ContentOf(n)]
  /\ pc = "run"
  /\ idx = 0
  /\ blocks = << >>
  /\ block_idx = 0
  /\ translated_blocks = << >>
  /\ protected = [text |-> << >>, map |-> << >>]
  /\ attempt = 0
  /\ translated_text = None
  /\ events = << >>
  /\ net = << >>
  /\ opened = << >>
  /\ observed = << >>
  /\ raised = {}
  /\ exists_seen = {}
  /\ fatal = FALSE

InitWith(inputs) ==
  /\ InitRun(inputs)
  /\ fn = ""
  /\ arg = << >>
  /\ ret = << >>

\* Constructor arguments (target_lang, files) of the main specification.
Inputs ==
  UNION { { << l, j >> : j \in Jobs(FileNames) } : l \in ModelLangs }

Init == InitWith(Inputs)

\* Every target language of LANGUAGES, over a.srt and b.<code>.x.srt.
LangInputs ==
  UNION { { << l, j >> : j \in Jobs(LangFileNames(l)) } : l \in LangCodes }

InitLang == InitWith(LangInputs)

\* ------------------------------------------------------------------------
\* cancel(), called by the window thread (cancel_translation, closeEvent)
\* ------------------------------------------------------------------------
Cancel ==
  /\ pc # "done"
  /\ ~is_cancelled
  /\ is_cancelled' = TRUE
  /\ UNCHANGED << callVars, jobVars, fs, pc, idx, fileVars, events, net, opened,
                  observed, raised, exists_seen, fatal >>

\* cancel(), with a note in net, on the post in flight if there is one, that
\* the flag was set while the worker was waiting for the answer.
CancelNoted ==
  /\ pc # "done"
  /\ ~is_cancelled
  /\ is_cancelled' = TRUE
  /\ net' = IF pc = "wait" THEN [net EXCEPT ![Len(net)].cancel = TRUE] ELSE net
  /\ UNCHANGED << callVars, jobVars, fs, pc, idx, fileVars, events, opened,
                  observed, raised, exists_seen, fatal >>

\* ------------------------------------------------------------------------
\* run()
\* ------------------------------------------------------------------------
\* total_files = len(self.files); enter the for loop.
RunStart ==
  /\ pc = "run"
  /\ pc' = "for_file"
  /\ idx' = 0
  /\ UNCHANGED << callVars, jobVars, is_cancelled, fs, fileVars, events, net, opened,
                  observed, raised, exists_seen, fatal >>

\* len(self.files) / enumerate(self.files) raises (the file list cannot be
\* iterated): the error leaves the outer try body before the loop.
RunStartRaise ==
  /\ pc = "run"
  /\ pc' = "run_except"
  /\ fatal' = TRUE
  /\ UNCHANGED << callVars, jobVars, is_cancelled, fs, idx, fileVars, events, net,
                  opened, observed, raised, exists_seen >>

\* for idx, file_path in enumerate(self.files): next item or loop exit.
ForFile ==
  /\ pc = "for_file"
  /\ pc' = IF idx < total_files THEN "file_top" ELSE "final_progress"
  /\ UNCHANGED << callVars, jobVars, is_cancelled, fs, idx, fileVars, events, net,
                  opened, observed, raised, exists_seen, fatal >>

\* Mutant: the progress event at the start of a file counts the file itself
\* (idx + 1).
FileTop_CountsFromOne ==
  /\ pc = "file_top"
  /\ IF is_cancelled
     THEN /\ Observe("file_top")
          /\ Emit(<< Log("Translation cancelled by user", 0, 0) >>)
          /\ pc' = "final_progress"
     ELSE /\ Emit(<< Log("Processing file", idx, 0),
                     Progress(idx + 1, total_files) >>)
          /\ pc' = "pf_skip"
          /\ UNCHANGED observed
  /\ UNCHANGED << callVars, jobVars, is_cancelled, fs, idx, fileVars, net, opened,
                  raised, exists_seen, fatal >>

\* Cancellation check at the start of a file, then the two emits.
FileTop ==
  /\ pc = "file_top"
  /\ IF is_cancelled
     THEN /\ Observe("file_top")
          /\ Emit(<< Log("Translation cancelled by user", 0, 0) >>)
          /\ pc' = "final_progress"
     ELSE /\ Emit(<< Log("Processing file", idx, 0),
                     Progress(idx, total_files) >>)
          /\ pc' = "pf_skip"
          /\ UNCHANGED observed
  /\ UNCHANGED << callVars, jobVars, is_cancelled, fs, idx, fileVars, net, opened,
                  raised, exists_seen, fatal >>

\* Mutant: the per-file try/except wraps the loop, not its body.
FileExcept_LeavesLoop ==
  /\ pc = "file_except"
  /\ Emit(<< Log("Error processing", idx, 0) >>)
  /\ pc' = "final_progress"
  /\ UNCHANGED << callVars, jobVars, is_cancelled, fs, idx, fileVars, net, opened,
                  observed, raised, exists_seen, fatal >>

\* except Exception as e: log_message.emit(f"Error processing {file_path}...")
FileExcept ==
  /\ pc = "file_except"
  /\ Emit(<< Log("Error processing", idx, 0) >>)
  /\ pc' = "file_after"
  /\ UNCHANGED << callVars, jobVars, is_cancelled, fs, idx, fileVars, net, opened,
                  observed, raised, exists_seen, fatal >>

\* Mutant: after the file the worker waits for the flag to be cleared
\* before it goes on.
FileAfter_WaitsOnFlag ==
  /\ pc = "file_after"
  /\ ~is_cancelled
  /\ idx' = idx + 1
  /\ pc' = "for_file"
  /\ UNCHANGED << callVars, jobVars, is_cancelled, fs, fileVars, events, net, opened,
                  observed, raised, exists_seen, fatal >>

\* if self.is_cancelled(): break  -- after the file; else the next item.
FileAfter ==
  /\ pc = "file_after"
  /\ IF is_cancelled
     THEN /\ Observe("file_after")
          /\ pc' = "final_progress"
          /\ UNCHANGED idx
     ELSE /\ idx' = idx + 1
          /\ pc' = "for_file"
          /\ UNCHANGED observed
  /\ UNCHANGED << callVars, jobVars, is_cancelled, fs, fileVars, events, net, opened,
                  raised, exists_seen, fatal >>

\* self.progress.emit(total_files, total_files)
FinalProgress ==
  /\ pc = "final_progress"
  /\ Emit(<< Progress(total_files, total_files) >>)
  /\ pc' = "final_check"
  /\ UNCHANGED << callVars, jobVars, is_cancelled, fs, idx, fileVars, net, opened,
                  observed, raised, exists_seen, fatal >>

\* Mutant: the success message is logged without reading the flag.
FinalCheck_Unconditional ==
  /\ pc = "final_check"
  /\ Emit(<< Log("Translation completed successfully!", 0, 0) >>)
  /\ pc' = "finally"
  /\ UNCHANGED << callVars, jobVars, is_cancelled, fs, idx, fileVars, net, opened,
                  observed, raised, exists_seen, fatal >>

\* if not self.is_cancelled(): log "Translation completed successfully!"
FinalCheck ==
  /\ pc = "final_check"
  /\ IF is_cancelled
     THEN /\ Observe("final_check")
          /\ UNCHANGED events
     ELSE /\ Emit(<< Log("Translation completed successfully!", 0, 0) >>)
          /\ UNCHANGED observed
  /\ pc' = "finally"
  /\ UNCHANGED << callVars, jobVars, is_cancelled, fs, idx, fileVars, net, opened,
                  raised, exists_seen, fatal >>

\* Mutant: finished.emit() sits at the end of the try body, not in finally.
RunExcept_NoFinally ==
  /\ pc = "run_except"
  /\ Emit(<< Error >>)
  /\ pc' = "done"
  /\ UNCHANGED << callVars, jobVars, is_cancelled, fs, idx, fileVars, net, opened,
                  observed, raised, exists_seen, fatal >>

\* except Exception as e: self.error.emit(...)
RunExcept ==
  /\ pc = "run_except"
  /\ Emit(<< Error >>)
  /\ pc' = "finally"
  /\ UNCHANGED << callVars, jobVars, is_cancelled, fs, idx, fileVars, net, opened,
                  observed, raised, exists_seen, fatal >>

\* finally: self.finished.emit()
Finally ==
  /\ pc = "finally"
  /\ Emit(<< Finished >>)
  /\ pc' = "done"
  /\ UNCHANGED << callVars, jobVars, is_cancelled, fs, idx, fileVars, net, opened,
                  observed, raised, exists_seen, fatal >>

\* ------------------------------------------------------------------------
\* process_file()
\* ------------------------------------------------------------------------
\* Mutant: the "target already exists" branch logs but does not return.
PfSkip_NoReturn ==
  /\ pc = "pf_skip"
  /\ exists_seen' = IF target_path \in DOMAIN fs
                    THEN exists_seen \cup {idx} ELSE exists_seen
  /\ IF HasLangCode(file_path, target_lang)
     THEN /\ Emit(IF target_path \in DOMAIN fs
                  THEN << Log("Skipping - target already exists", idx, 0),
                          Log("Skipping - already has target language code", idx, 0) >>
                  ELSE << Log("Skipping - already has target language code", idx, 0) >>)
          /\ pc' = "file_after"
     ELSE /\ Emit(IF target_path \in DOMAIN fs
                  THEN << Log("Skipping - target already exists", idx, 0) >>
                  ELSE << >>)
          /\ pc' = "pf_read"
  /\ UNCHANGED << callVars, jobVars, is_cancelled, fs, idx, fileVars, net, opened,
                  observed, raised, fatal >>

\* Mutant: the existence test of the target is left out; only the language
\* code in the file name makes process_file skip.
PfSkip_NoExistsTest ==
  /\ pc = "pf_skip"
  /\ IF HasLangCode(file_path, target_lang)
     THEN /\ Emit(<< Log("Skipping - already has target language code", idx, 0) >>)
          /\ pc' = "file_after"
     ELSE /\ pc' = "pf_read"
          /\ UNCHANGED events
  /\ UNCHANGED << callVars, jobVars, is_cancelled, fs, idx, fileVars, net, opened,
                  observed, raised, exists_seen, fatal >>

\* The two skip decisions: target exists, name holds the language code.
PfSkip ==
  /\ pc = "pf_skip"
  /\ exists_seen' = IF target_path \in DOMAIN fs
                    THEN exists_seen \cup {idx} ELSE exists_seen
  /\ IF target_path \in DOMAIN fs
     THEN /\ Emit(<< Log("Skipping - target already exists", idx, 0) >>)
          /\ pc' = "file_after"
     ELSE IF HasLangCode(file_path, target_lang)
     THEN /\ Emit(<< Log("Skipping - already has target language code", idx, 0) >>)
          /\ pc' = "file_after"
     ELSE /\ pc' = "pf_read"
          /\ UNCHANGED events
  /\ UNCHANGED << callVars, jobVars, is_cancelled, fs, idx, fileVars, net, opened,
                  observed, raised, fatal >>

\* Mutant: the "no valid blocks" branch logs but does not return.
PfRead_NoReturn ==
  /\ pc = "pf_read"
  /\ LET parsed == parse_srt(fs[file_path])
     IN /\ blocks' = parsed
        /\ IF parsed = << >>
           THEN Emit(<< Log("No valid blocks found", idx, 0) >>)
           ELSE UNCHANGED events
  /\ pc' = "for_block"
  /\ translated_blocks' = << >>
  /\ block_idx' = 0
  /\ UNCHANGED << callVars, jobVars, is_cancelled, fs, idx, protected, attempt,
                  translated_text, net, opened, observed, raised, exists_seen, fatal >>

\* open(file_path) / f.read(), parse_srt, the "no valid blocks" return.
PfRead ==
  /\ pc = "pf_read"
  /\ LET parsed == parse_srt(fs[file_path])
     IN /\ blocks' = parsed
        /\ IF parsed = << >>
           THEN /\ Emit(<< Log("No valid blocks found", idx, 0) >>)
                /\ pc' = "file_after"
           ELSE /\ pc' = "for_block"
                /\ UNCHANGED events
  /\ translated_blocks' = << >>
  /\ block_idx' = 0
  /\ UNCHANGED << callVars, jobVars, is_cancelled, fs, idx, protected, attempt,
                  translated_text, net, opened, observed, raised, exists_seen, fatal >>

\* open()/read() raises (file gone, not readable, not UTF-8).
PfReadRaise ==
  /\ pc = "pf_read"
  /\ raised' = raised \cup {idx}
  /\ pc' = "file_except"
  /\ UNCHANGED << callVars, jobVars, is_cancelled, fs, idx, fileVars, events, net,
                  opened, observed, exists_seen, fatal >>

\* Mutant: the block checkpoint reads the flag but does not return.
ForBlock_NoReturn ==
  /\ pc = "for_block"
  /\ IF block_idx >= Len(blocks)
     THEN /\ pc' = "pf_save"
          /\ UNCHANGED << events, observed, protected, attempt >>
     ELSE /\ IF is_cancelled THEN Observe("for_block") ELSE UNCHANGED observed
          /\ Emit(<< Log("Translating block", block_idx + 1, Len(blocks)) >>)
          /\ protected' = protect_content(blocks[block_idx + 1].text)
          /\ attempt' = 0
          /\ pc' = "post"
  /\ UNCHANGED << callVars, jobVars, is_cancelled, fs, idx, blocks, block_idx,
                  translated_blocks, translated_text, net, opened, raised,
                  exists_seen, fatal >>

\* Mutant: the block checkpoint leaves the loop (break) and the blocks
\* collected so far are saved.
ForBlock_BreakAndSave ==
  /\ pc = "for_block"
  /\ IF block_idx >= Len(blocks)
     THEN /\ pc' = "pf_save"
          /\ UNCHANGED << events, observed, protected, attempt >>
     ELSE IF is_cancelled
     THEN /\ Observe("for_block")
          /\ pc' = "pf_save"
          /\ UNCHANGED << events, protected, attempt >>
     ELSE /\ Emit(<< Log("Translating block", block_idx + 1, Len(blocks)) >>)
          /\ protected' = protect_content(blocks[block_idx + 1].text)
          /\ attempt' = 0
          /\ pc' = "post"
          /\ UNCHANGED observed
  /\ UNCHANGED << callVars, jobVars, is_cancelled, fs, idx, blocks, block_idx,
                  translated_blocks, translated_text, net, opened, raised, exists_seen, fatal >>

\* for block_idx, block in enumerate(blocks): loop exit, the cancellation
\* check, or the start of the block (log, protect_content, prompt).
ForBlock ==
  /\ pc = "for_block"
  /\ IF block_idx >= Len(blocks)
     THEN /\ pc' = "pf_save"
          /\ UNCHANGED << events, observed, protected, attempt >>
     ELSE IF is_cancelled
     THEN /\ Observe("for_block")
          /\ pc' = "file_after"
          /\ UNCHANGED << events, protected, attempt >>
     ELSE /\ Emit(<< Log("Translating block", block_idx + 1, Len(blocks)) >>)
          /\ protected' = protect_content(blocks[block_idx + 1].text)
          /\ attempt' = 0
          /\ pc' = "post"
          /\ UNCHANGED observed
  /\ UNCHANGED << callVars, jobVars, is_cancelled, fs, idx, blocks, block_idx,
                  translated_blocks, translated_text, net, opened, raised, exists_seen, fatal >>

\* Mutant: the failure branch continues without appending the block.
BlockDone_DropFailed ==
  /\ pc = "tr_ret"
  /\ LET block == blocks[block_idx + 1]
     IN IF ~Truthy(translated_text)
        THEN /\ Emit(<< Log("Skipping block due to translation failure",
                            block_idx + 1, 0) >>)
             /\ UNCHANGED translated_blocks
        ELSE /\ translated_blocks' =
                  Append(translated_blocks,
                         [block EXCEPT !.text =
                            restore_content(translated_text.text, protected.map)])
             /\ UNCHANGED events
  /\ block_idx' = block_idx + 1
  /\ pc' = "for_block"
  /\ UNCHANGED << callVars, jobVars, is_cancelled, fs, idx, blocks, protected, attempt,
                  translated_text, net, opened, observed, raised, exists_seen,
                  fatal >>

\* After translate_text returned: keep the original text on a falsy result,
\* else restore_content; append the block.
BlockDone ==
  /\ pc = "tr_ret"
  /\ LET block == blocks[block_idx + 1]
     IN IF ~Truthy(translated_text)
        THEN /\ Emit(<< Log("Skipping block due to translation failure",
                            block_idx + 1, 0) >>)
             /\ translated_blocks' = Append(translated_blocks, block)
        ELSE /\ translated_blocks' =
                  Append(translated_blocks,
                         [block EXCEPT !.text =
                            restore_content(translated_text.text, protected.map)])
             /\ UNCHANGED events
  /\ block_idx' = block_idx + 1
  /\ pc' = "for_block"
  /\ UNCHANGED << callVars, jobVars, is_cancelled, fs, idx, blocks, protected, attempt,
                  translated_text, net, opened, observed, raised, exists_seen, fatal >>

\* Mutant: save_srt numbers the blocks itself, from 0, in place of the
\* index read from the input.
PfSave_Renumbered ==
  /\ pc = "pf_save"
  /\ opened' = Append(opened, SaveCall(TRUE))
  /\ fs' = [n \in DOMAIN fs \cup {target_path} |->
              IF n = target_path
              THEN save_srt([i \in DOMAIN translated_blocks |->
                               [translated_blocks[i] EXCEPT
                                  !.index = << CHOOSE d \in Digits : d = ToString(i - 1) >>]])
              ELSE fs[n]]
  /\ Emit(<< Log("Saved translated file", idx, 0) >>)
  /\ pc' = "file_after"
  /\ UNCHANGED << callVars, jobVars, is_cancelled, idx, fileVars, net, observed, raised, exists_seen, fatal >>

\* save_srt(target_path, translated_blocks) and the "Saved" log.
PfSave ==
  /\ pc = "pf_save"
  /\ opened' = Append(opened, SaveCall(TRUE))
  /\ fs' = [n \in DOMAIN fs \cup {target_path} |->
              IF n = target_path THEN save_srt(translated_blocks) ELSE fs[n]]
  /\ Emit(<< Log("Saved translated file", idx, 0) >>)
  /\ pc' = "file_after"
  /\ UNCHANGED << callVars, jobVars, is_cancelled, idx, fileVars, net, observed, raised, exists_seen, fatal >>

\* open(path, 'w') raises (directory not writable, disk full).
PfSaveRaise ==
  /\ pc = "pf_save"
  /\ opened' = Append(opened, SaveCall(FALSE))
  /\ raised' = raised \cup {idx}
  /\ pc' = "file_except"
  /\ UNCHANGED << callVars, jobVars, is_cancelled, fs, idx, fileVars, events, net,
                  observed, exists_seen, fatal >>

\* ------------------------------------------------------------------------
\* translate_text()
\* ------------------------------------------------------------------------
NetOp(op, outcome, reply) ==
  [op |-> op, file |-> idx, block |-> block_idx, attempt |-> attempt,
   outcome |-> outcome, reply |-> reply, cancel |-> FALSE]

\* The last entry of net (the post in flight) completed with an outcome.
Answered(outcome, reply) ==
  net' = [net EXCEPT ![Len(net)].outcome = outcome, ![Len(net)].reply = reply]

\* Failed attempts so far in the run (the endpoint's budget of failures).
Failures ==
  Cardinality({ i \in 1..Len(net) :
                  net[i].outcome \in {"status", "exception"} })

\* Mutant: the post is handed to another thread and the call returns at
\* once, without a result.
Post_Async ==
  /\ pc = "post"
  /\ net' = Append(net, NetOp("post", "pending", << >>))
  /\ translated_text' = None
  /\ pc' = "tr_ret"
  /\ UNCHANGED << callVars, jobVars, is_cancelled, fs, idx, blocks, block_idx,
                  translated_blocks, protected, attempt, events, opened,
                  observed, raised, exists_seen, fatal >>

\* requests.post(...) is issued; the worker blocks until the answer.
Post ==
  /\ pc = "post"
  /\ net' = Append(net, NetOp("post", "pending", << >>))
  /\ pc' = "wait"
  /\ UNCHANGED << callVars, jobVars, is_cancelled, fs, idx, fileVars, events, opened,
                  observed, raised, exists_seen, fatal >>

\* HTTP 200 with a reply at ['message']['content']: return it.
RespOk ==
  /\ pc = "wait"
  /\ \E r \in Replies(protected.text) :
       /\ Answered("ok", r)
       /\ translated_text' = Some(r)
  /\ pc' = "tr_ret"
  /\ UNCHANGED << callVars, jobVars, is_cancelled, fs, idx, blocks, block_idx,
                  translated_blocks, protected, attempt, events, opened,
                  observed, raised, exists_seen, fatal >>

\* Any other status: the "API error" log.
RespStatus ==
  /\ pc = "wait"
  /\ Failures < MaxFailures
  /\ Answered("status", << >>)
  /\ Emit(<< Log("API error", attempt + 1, RETRY_COUNT + 1) >>)
  /\ pc' = "retry"
  /\ UNCHANGED << callVars, jobVars, is_cancelled, fs, idx, fileVars, opened, observed,
                  raised, exists_seen, fatal >>

\* requests.post raises (connection error, timeout), or the 200 body has no
\* ['message']['content'] (response.json() or the lookup raises): the
\* "Network error" log of the except branch.
RespException ==
  /\ pc = "wait"
  /\ Failures < MaxFailures
  /\ Answered("exception", << >>)
  /\ Emit(<< Log("Network error", attempt + 1, RETRY_COUNT + 1) >>)
  /\ pc' = "retry"
  /\ UNCHANGED << callVars, jobVars, is_cancelled, fs, idx, fileVars, opened, observed,
                  raised, exists_seen, fatal >>

\* Mutant: the backoff sleep is not guarded by "attempt < RETRY_COUNT".
Retry_SleepAfterLast ==
  /\ pc = "retry"
  /\ net' = Append(net, NetOp("sleep", "", << >>))
  /\ IF attempt < RETRY_COUNT
     THEN /\ attempt' = attempt + 1
          /\ pc' = "post"
          /\ UNCHANGED translated_text
     ELSE /\ translated_text' = None
          /\ pc' = "tr_ret"
          /\ UNCHANGED attempt
  /\ UNCHANGED << callVars, jobVars, is_cancelled, fs, idx, blocks, block_idx,
                  translated_blocks, protected, events, opened, observed,
                  raised, exists_seen, fatal >>

\* Mutant: range(RETRY_COUNT) instead of range(RETRY_COUNT + 1).
Retry_OneAttemptShort ==
  /\ pc = "retry"
  /\ IF attempt < RETRY_COUNT - 1
     THEN /\ net' = Append(net, NetOp("sleep", "", << >>))
          /\ attempt' = attempt + 1
          /\ pc' = "post"
          /\ UNCHANGED translated_text
     ELSE /\ translated_text' = None
          /\ pc' = "tr_ret"
          /\ UNCHANGED << net, attempt >>
  /\ UNCHANGED << callVars, jobVars, is_cancelled, fs, idx, blocks, block_idx,
                  translated_blocks, protected, events, opened, observed,
                  raised, exists_seen, fatal >>

\* if attempt < RETRY_COUNT: time.sleep(RETRY_DELAY), next attempt;
\* after the last attempt the loop ends and None is returned.
Retry ==
  /\ pc = "retry"
  /\ IF attempt < RETRY_COUNT
     THEN /\ net' = Append(net, NetOp("sleep", "", << >>))
          /\ attempt' = attempt + 1
          /\ pc' = "post"
          /\ UNCHANGED translated_text
     ELSE /\ translated_text' = None
          /\ pc' = "tr_ret"
          /\ UNCHANGED << net, attempt >>
  /\ UNCHANGED << callVars, jobVars, is_cancelled, fs, idx, blocks, block_idx,
                  translated_blocks, protected, events, opened, observed,
                  raised, exists_seen, fatal >>

\* ------------------------------------------------------------------------
\* Specification
\* ------------------------------------------------------------------------
Next ==
  \/ Cancel
  \/ RunStart
  \/ RunStartRaise
  \/ ForFile
  \/ FileTop
  \/ FileExcept
  \/ FileAfter
  \/ FinalProgress
  \/ FinalCheck
  \/ RunExcept
  \/ Finally
  \/ PfSkip
  \/ PfRead
  \/ PfReadRaise
  \/ ForBlock
  \/ BlockDone
  \/ PfSave
  \/ PfSaveRaise
  \/ Post
  \/ RespOk
  \/ RespStatus
  \/ RespException
  \/ Retry

Spec == Init /\ [][Next]_vars

SpecLang == InitLang /\ [][Next]_vars

\* Jobs over a.srt (two blocks) and a.en.srt (one block), which share the
\* target a.sv.srt: the second file is translated when the first one was
\* not written.
PairInputs ==
  UNION { { << l, j >> : j \in Jobs({ NameA, NameAEn }) } : l \in ModelLangs }

InitPair == InitWith(PairInputs)

SpecPair == InitPair /\ [][Next]_vars

\* Jobs whose inputs share a target or are a target themselves: a.srt and
\* a.en.srt both map to a.sv.srt, which can be an input as well.
TargetInputs ==
  UNION { { << l, j >> : j \in Jobs({ NameA, NameAEn, NameASv }) } : l \in ModelLangs }

InitTargets == InitWith(TargetInputs)

SpecTargets == InitTargets /\ [][Next]_vars

\* The steps of the worker thread (everything but cancel(), which the window
\* thread may or may not call).  Once started the thread keeps running: a
\* post is answered or times out (timeout=30), a sleep ends.
WorkerStep ==
  \/ RunStart \/ RunStartRaise \/ ForFile \/ FileTop \/ FileExcept
  \/ FileAfter \/ FinalProgress \/ FinalCheck \/ RunExcept \/ Finally
  \/ PfSkip \/ PfRead \/ PfReadRaise \/ ForBlock \/ BlockDone \/ PfSave
  \/ PfSaveRaise \/ Post \/ RespOk \/ RespStatus \/ RespException \/ Retry

\* Jobs of the specification with fairness: a.srt (two blocks) and e.srt
\* (no block), in either order or alone.
FairInputs ==
  UNION { { << l, j >> : j \in Jobs({ NameA, NameE }) } : l \in ModelLangs }

InitFair == InitWith(FairInputs)

SpecFair == InitFair /\ [][Next]_vars /\ WF_vars(WorkerStep)

\* The jobs over a.srt and a.en.srt, the moment of cancel() noted in net.
NextNoted == CancelNoted \/ WorkerStep

SpecNoted == InitPair /\ [][NextNoted]_vars

\* The same jobs without the fairness condition.
SpecNoBlocks == InitFair /\ [][Next]_vars

\* ------------------------------------------------------------------------
\* Direct calls of protect_content and restore_content
\* ------------------------------------------------------------------------
\* Block texts: up to MaxParts pieces put together.  The pieces are an
\* opening and a closing tag, two timecodes, a tag that holds a timecode,
\* stray brackets, a letter, and two strings in placeholder syntax.
TextPieces ==
  { <<"<", "i", ">">>, <<"<", "/", "i", ">">>, <<"T1">>, <<"T2">>,
    <<"<", "T1", ">">>, <<"<">>, <<">">>, <<"i">>,
    <<"<", "TIME_0", ">">>, <<"<", "BTAG_0", ">">> }

RECURSIVE Flatten(_)
Flatten(ps) == IF ps = << >> THEN << >> ELSE Head(ps) \o Flatten(Tail(ps))

Texts(parts) ==
  { Flatten(ps) : ps \in UNION { [1..n -> TextPieces] : n \in 0..parts } }

\* A worker that is not running, and the argument of the call.
InitCall(args) ==
  /\ InitRun({ << <<"s", "v">>, << NameA >> >> })
  /\ fn = ""
  /\ arg \in args
  /\ ret = << >>

InitProtect == InitCall(Texts(MaxParts))

\* protected_text, replacements = self.protect_content(text)
CallProtect ==
  /\ fn = ""
  /\ fn' = "protect_content"
  /\ ret' = protect_content(arg)
  /\ UNCHANGED << arg, runVars >>

\* self.restore_content(protected_text, replacements)
CallRestore ==
  /\ fn = "protect_content"
  /\ fn' = "restore_content"
  /\ ret' = restore_content(ret.text, ret.map)
  /\ UNCHANGED << arg, runVars >>

NextProtect == CallProtect \/ CallRestore

SpecProtect == InitProtect /\ [][NextProtect]_vars

\* ------------------------------------------------------------------------
\* Direct calls of parse_srt and save_srt
\* ------------------------------------------------------------------------
\* Well-formed subtitle texts: 1..MaxBlocks valid blocks (index line, time
\* range line, one or two text lines), a separator of one or two blank
\* lines between two blocks, and after the last block nothing, a newline or
\* a blank line.  A text is kept as its shape; Render gives the string.
IndexLines == { <<"1">>, <<"1", "2">> }
TextLines ==
  { <<"g">>, <<" ", "g">>, <<"g", " ">>, <<"g", "\n", "w">>,
    <<"g", " ", "\n", "w">>, <<"T1", "\n", "<", "i", ">">> }
Separators == { <<"\n", "\n">>, <<"\n", "\n", "\n">> }
Endings == { << >>, <<"\n">>, <<"\n", "\n">> }

BlockShapes == { [index |-> i, text |-> t] : i \in IndexLines, t \in TextLines }

SrtShapes(most) ==
  UNION { { [blocks |-> bs, seps |-> ss, end |-> e] :
              bs \in [1..n -> BlockShapes], ss \in [1..(n - 1) -> Separators],
              e \in Endings } : n \in 1..most }

RECURSIVE RenderFrom(_, _)
RenderFrom(x, k) ==
  IF k > Len(x.blocks) THEN x.end
  ELSE (IF k > 1 THEN x.seps[k - 1] ELSE << >>)
       \o x.blocks[k].index \o <<"\n">> \o RangeLine \o <<"\n">>
       \o x.blocks[k].text \o RenderFrom(x, k + 1)

Render(x) == RenderFrom(x, 1)

InitCodec == InitCall(SrtShapes(MaxBlocks))

\* blocks = self.parse_srt(content)
CallParse ==
  /\ fn = ""
  /\ fn' = "parse_srt"
  /\ ret' = parse_srt(Render(arg))
  /\ UNCHANGED << arg, runVars >>

\* self.save_srt(target_path, blocks): the text written to the file.
CallSave ==
  /\ fn = "parse_srt"
  /\ fn' = "save_srt"
  /\ ret' = save_srt(ret)
  /\ UNCHANGED << arg, runVars >>

NextCodec == CallParse \/ CallSave

SpecCodec == InitCodec /\ [][NextCodec]_vars

\* ------------------------------------------------------------------------
\* Direct calls of generate_system_prompt
\* ------------------------------------------------------------------------
\* Advanced prompts: up to MaxOverride symbols among whitespace, a letter
\* and a brace field (which nothing substitutes).
OverrideSyms == { " ", "\n", "\t", "p", "{target_lang}" }
Overrides(longest) == UNION { [1..n -> OverrideSyms] : n \in 0..longest }
\* The three entries of the style combo box, and a value that is none of them.
Styles == { "Natural (recommended)", "Formal", "Simple clear", "Other" }
PromptLangs == { <<"s", "v">>, <<"z", "h", "-", "C", "N">> }

PromptArgs(longest) ==
  { [target_lang |-> l, style |-> st, advanced_prompt |-> o] :
      l \in PromptLangs, st \in Styles, o \in Overrides(longest) }

InitPrompt == InitCall(PromptArgs(MaxOverride))

\* system_prompt = self.generate_system_prompt(protected_text)
CallPrompt ==
  /\ fn = ""
  /\ fn' = "generate_system_prompt"
  /\ ret' = generate_system_prompt(arg.target_lang, arg.style, arg.advanced_prompt)
  /\ UNCHANGED << arg, runVars >>

\* The prompt is handed to translate_text as the system message.
UsePrompt ==
  /\ fn = "generate_system_prompt"
  /\ fn' = "translate_text"
  /\ UNCHANGED << arg, ret, runVars >>

NextPrompt == CallPrompt \/ UsePrompt

SpecPrompt == InitPrompt /\ [][NextPrompt]_vars

TypeOK ==
  /\ pc \in {"run", "for_file", "file_top", "pf_skip", "pf_read", "for_block",
             "post", "wait", "retry", "tr_ret", "pf_save", "file_except",
             "file_after", "final_progress", "final_check", "run_except",
             "finally", "done"}
  /\ idx \in 0..Len(files)
  /\ attempt \in 0..RETRY_COUNT

\* ------------------------------------------------------------------------
\* Properties
\* ------------------------------------------------------------------------
FailKinds == {"status", "exception"}

\* The network operations / the HTTP attempts of the call for block b of file f.
Ops(f, b) == SelectSeq(net, LAMBDA e : e.file = f /\ e.block = b)
Posts(f, b) == SelectSeq(Ops(f, b), LAMBDA e : e.op = "post")
OpNames(ops) == [i \in 1..Len(ops) |-> ops[i].op]
Attempts(ops) == [i \in 1..Len(ops) |-> ops[i].attempt]
AllFailed(ps) == \A i \in 1..Len(ps) : ps[i].outcome \in FailKinds

\* C1: when translate_text returns and every attempt it made failed (status
\* other than 200, or an exception), it made exactly 3 attempts, slept
\* exactly twice, after attempt 1 and after attempt 2 and not after the
\* last one, and it returns None.
C1_RetryBudget ==
  (pc = "tr_ret" /\ AllFailed(Posts(idx, block_idx))) =>
    /\ OpNames(Ops(idx, block_idx)) = <<"post", "sleep", "post", "sleep", "post">>
    /\ Attempts(Ops(idx, block_idx)) = <<0, 0, 1, 1, 2>>
    /\ translated_text = None

\* translate_text has returned from an endpoint that failed every time.
C1_Witness ==
  /\ pc = "tr_ret"
  /\ AllFailed(Posts(idx, block_idx))
  /\ Len(Posts(idx, block_idx)) = 3

\* C2: when translate_text returns, it made at most 3 attempts, every attempt
\* before the last one failed, nothing (no sleep, no attempt) follows the
\* last one, and the result is the reply of the last attempt when that one
\* answered 200 with a reply; it is None only when 3 attempts were made and
\* none of them did.
C2_FirstSuccess ==
  pc = "tr_ret" =>
    LET ps == Posts(idx, block_idx)
        ops == Ops(idx, block_idx)
        n == Len(ps)
    IN /\ n \in 1..3
       /\ \A i \in 1..(n - 1) : ps[i].outcome \in FailKinds
       /\ ops[Len(ops)] = ps[n]
       /\ IF ps[n].outcome = "ok"
          THEN translated_text = Some(ps[n].reply)
          ELSE n = 3 /\ translated_text = None

\* A call that succeeded on a retry, after a failed attempt and a sleep.
C2_Witness ==
  /\ pc = "tr_ret"
  /\ Len(Posts(idx, block_idx)) >= 2
  /\ translated_text.ok

\* The blocks parse_srt gives for each file name of the model, and for
\* file k (0-based) of the job.
ParsedOf ==
  [name \in FileNames \cup UNION { LangFileNames(lang) : lang \in LangCodes } |->
     parse_srt(ContentOf(name))]
ParsedBlocks(k) == ParsedOf[files[k + 1]]
FileIdx == 0..(Len(files) - 1)
BlockIdx(k) == 0..(Len(ParsedBlocks(k)) - 1)

\* translate_text used up its attempts on block i of file k.
FailedCall(k, i) ==
  /\ Len(Posts(k, i)) = RETRY_COUNT + 1
  /\ AllFailed(Posts(k, i))

\* The save_srt calls made for file k.
SavesOf(k) == SelectSeq(opened, LAMBDA r : r.file = k)

\* Cancellation was observed at a block checkpoint of file k.
ObservedInFile(k) ==
  \E n \in 1..Len(observed) : observed[n].at = "for_block" /\ observed[n].file = k

\* net is ordered by file, then block, then attempt (each entry against
\* the next one).
NetOrdered ==
  \A a \in 1..(Len(net) - 1) :
    LET b == a + 1
    IN \/ net[a].file < net[b].file
       \/ net[a].file = net[b].file /\ net[a].block < net[b].block
       \/ /\ net[a].file = net[b].file /\ net[a].block = net[b].block
          /\ net[a].attempt <= net[b].attempt

\* The calls of translate_text, as (file, block) pairs, whose attempt
\* number RETRY_COUNT (the last one of the loop) failed.
GivenUp ==
  { << net[n].file, net[n].block >> :
      n \in { m \in 1..Len(net) : /\ net[m].op = "post"
                                  /\ net[m].attempt = RETRY_COUNT
                                  /\ net[m].outcome \in FailKinds } }

\* C3 as stated: once the run is over, for every block i whose translation
\* failed after exhausting the retries, every later block of the file was
\* sent for translation and the output file was written, with block i's
\* original text in it.
C3_Original ==
  pc = "done" =>
    \A k \in FileIdx : \A i \in BlockIdx(k) :
      FailedCall(k, i) =>
        /\ \A j \in BlockIdx(k) : j > i => Posts(k, j) # << >>
        /\ \E n \in 1..Len(opened) :
             /\ opened[n].file = k
             /\ opened[n].ok
             /\ opened[n].blocks[i + 1].text = ParsedBlocks(k)[i + 1].text

\* C3 (amended): a block whose translation failed after exhausting the
\* retries is handed to save_srt unchanged, in its place among all the
\* blocks of the file, and a successful write holds exactly those blocks;
\* unless cancellation is observed at a later block checkpoint of the file,
\* every later block is still sent for translation, in order, and save_srt
\* is called for the file.
C3_SoftFailure ==
  /\ NetOrdered
  /\ \A c \in GivenUp :
       LET k == c[1]
           i == c[2]
       IN
       /\ FailedCall(k, i)
       /\ \A n \in 1..Len(opened) :
            opened[n].file = k =>
              /\ Len(opened[n].blocks) = Len(ParsedBlocks(k))
              /\ opened[n].blocks[i + 1] = ParsedBlocks(k)[i + 1]
              /\ opened[n].ok =>
                   /\ opened[n].path \in DOMAIN fs
                   /\ fs[opened[n].path] = save_srt(opened[n].blocks)
       /\ (pc = "done" /\ ~ObservedInFile(k)) =>
            /\ \A j \in BlockIdx(k) : j > i => Posts(k, j) # << >>
            /\ SavesOf(k) # << >>

\* The first block of a file failed, the second was sent, the file was written.
C3_Witness ==
  /\ pc = "done"
  /\ \E k \in FileIdx :
       /\ Len(ParsedBlocks(k)) >= 2
       /\ FailedCall(k, 0)
       /\ Posts(k, 1) # << >>
       /\ \E n \in 1..Len(opened) : opened[n].file = k /\ opened[n].ok

\* C4 as stated: in every block list handed to save_srt, a block whose call
\* ended with a 200 answer carrying reply r has the text
\* restore_content(r, map), map being the placeholder map of the block's
\* parsed text, for every r (the empty reply too); a block whose call
\* failed has its parsed text.
C4_Original ==
  \A n \in 1..Len(opened) :
    \A i \in 0..(Len(opened[n].blocks) - 1) :
      LET ps == Posts(opened[n].file, i)
          orig == ParsedBlocks(opened[n].file)[i + 1].text
      IN ps # << >> =>
           opened[n].blocks[i + 1].text =
             IF ps[Len(ps)].outcome = "ok"
             THEN restore_content(ps[Len(ps)].reply, protect_content(orig).map)
             ELSE orig

InEvents(e) == \E n \in 1..Len(events) : events[n] = e
Count(sig) == Len(SelectSeq(events, LAMBDA e : e.sig = sig))
ProgressEvents == SelectSeq(events, LAMBDA e : e.sig = "progress")

\* C5: once is_cancelled() has answered True to the worker, no further
\* network operation is issued; and a checkpoint (start of a file, start of
\* a block, after a file) that the worker passes with the flag set leaves
\* the loop it is in.
C5_StopsAtCheckpoint ==
  [][ /\ observed # << >> => net' = net
      /\ (is_cancelled /\ pc' # pc) =>
           /\ pc = "file_top" => pc' = "final_progress"
           /\ pc = "file_after" => pc' = "final_progress"
           /\ (pc = "for_block" /\ block_idx < Len(blocks)) => pc' = "file_after"
           /\ pc \in {"file_top", "file_after"} => observed' # << >>
    ]_vars

\* A run cancelled at a block checkpoint, after some network calls.
C5_Witness ==
  /\ pc = "done"
  /\ net # << >>
  /\ \E k \in FileIdx : ObservedInFile(k)

\* C6 as stated: in every finished run, a progress event was emitted and the
\* last one is (total, total).
C6_Original ==
  pc = "done" =>
    /\ ProgressEvents # << >>
    /\ ProgressEvents[Len(ProgressEvents)] = Progress(total_files, total_files)

\* C7: finished is emitted exactly once, when the run ends, and is then the
\* last event; error is emitted exactly once, before finished, in a run in
\* which an error escaped the per-file guard, and never in any other run.
C7_Completion ==
  /\ Count("finished") = (IF pc = "done" THEN 1 ELSE 0)
  /\ pc = "done" => events[Len(events)] = Finished
  /\ Count("error") = (IF fatal /\ pc \in {"finally", "done"} THEN 1 ELSE 0)

\* A run ended by an error that escaped the per-file guard.
C7_Witness == pc = "done" /\ fatal

\* C8: an exception raised by process_file for file k is caught in run():
\* no error signal, no fatal exit, the log event naming file k is emitted
\* (once the handler has run), and unless cancellation is observed every
\* later file of the job is taken up.
C8_FileGuard ==
  \A k \in raised :
    /\ ~fatal /\ Count("error") = 0 /\ pc # "run_except"
    /\ \/ pc = "file_except" /\ idx = k
       \/ InEvents(Log("Error processing", k, 0))
    /\ (pc = "done" /\ observed = << >>) =>
         \A j \in FileIdx : j > k => InEvents(Log("Processing file", j, 0))

\* The first file raised and the run went on to a later file and ended.
C8_Witness ==
  /\ pc = "done"
  /\ observed = << >>
  /\ \E k \in raised : k + 1 < Len(files)

\* C9: for a file whose target path existed at the check, no network
\* operation is made and save_srt is not called, the skip is logged, no
\* error is reported for it, and unless cancellation is observed every
\* later file of the job is taken up.
C9_SkipExisting ==
  \A k \in exists_seen :
    /\ \A n \in 1..Len(net) : net[n].file # k
    /\ \A n \in 1..Len(opened) : opened[n].file # k
    /\ InEvents(Log("Skipping - target already exists", k, 0))
    /\ k \notin raised
    /\ ~InEvents(Log("Error processing", k, 0))
    /\ Count("error") = 0
    /\ (pc = "done" /\ observed = << >>) =>
         \A j \in FileIdx : j > k => InEvents(Log("Processing file", j, 0))

\* A file with an existing target was skipped, and the run went on to a
\* later file and ended without a cancellation.
C9_Witness ==
  /\ pc = "done"
  /\ observed = << >>
  /\ \E k \in exists_seen : k + 1 < Len(files)

\* C10 as stated: a file whose name holds "." + target_lang + "." is
\* skipped: no network operation is made for it and save_srt is not called
\* for it, for every language of LANGUAGES.
C10_Original ==
  \A k \in FileIdx :
    Contains(files[k + 1], <<".">> \o target_lang \o <<".">>) =>
      /\ \A n \in 1..Len(net) : net[n].file # k
      /\ \A n \in 1..Len(opened) : opened[n].file # k

\* The file names of the model that parse_srt gives no block for.
NoBlockNames == { name \in DOMAIN ParsedOf : ParsedOf[name] = << >> }

\* File k was read without an error and parse_srt gave no block for it: it
\* was taken up, neither skip test held, and the read is behind the worker.
ParsedEmpty(k) ==
  /\ files[k + 1] \in NoBlockNames
  /\ idx > k \/ pc \notin {"pf_skip", "pf_read"}
  /\ k \notin exists_seen
  /\ k \notin raised
  /\ ~HasLangCode(files[k + 1], target_lang)
  /\ InEvents(Log("Processing file", k, 0))

\* C11: for a file that parse_srt gives no block for, the "No valid blocks
\* found" log is emitted, no network operation is made, save_srt is not
\* called and no target file appears, no error is logged or signalled, and
\* unless cancellation is observed every later file of the job is taken up.
C11_NoBlocks ==
  \A k \in FileIdx :
    ParsedEmpty(k) =>
      /\ InEvents(Log("No valid blocks found", k, 0))
      /\ \A n \in 1..Len(net) : net[n].file # k
      /\ \A n \in 1..Len(opened) : opened[n].file # k
      /\ get_target_path(files[k + 1], target_lang) \notin DOMAIN fs
      /\ ~InEvents(Log("Error processing", k, 0))
      /\ Count("error") = 0
      /\ (pc = "done" /\ observed = << >>) =>
           \A j \in FileIdx : j > k => InEvents(Log("Processing file", j, 0))

\* A file without blocks was read, and the run went on to a later file and
\* ended without a cancellation.
C11_Witness ==
  /\ pc = "done"
  /\ observed = << >>
  /\ \E k \in FileIdx : ParsedEmpty(k) /\ k + 1 < Len(files)

\* Reserved placeholder syntax: "<", a placeholder name, ">".
ReservedNames ==
  { TimeNames[n] : n \in DOMAIN TimeNames } \cup { BTagNames[n] : n \in DOMAIN BTagNames }
  \cup { ETagNames[n] : n \in DOMAIN ETagNames }
HasReserved(t) ==
  \E p \in 1..(Len(t) - 2) :
    t[p] = "<" /\ t[p + 1] \in ReservedNames /\ t[p + 2] = ">"

\* C12: restore_content applied to the result of protect_content(t) gives t
\* back, for every text t without reserved placeholder syntax.
C12_RoundTrip ==
  (fn = "restore_content" /\ ~HasReserved(arg)) => ret = arg

\* The round trip was made for a text with a repeated tag, a repeated
\* timecode and a tag that holds a timecode.
C12_Witness ==
  /\ fn = "restore_content"
  /\ arg = <<"<", "i", ">", "<", "T1", ">", "T1", "<", "i", ">">>

\* C13 as stated: serializing the parsed blocks of a well-formed text gives
\* the text back.
C13_Original == fn = "save_srt" => ret = Render(arg)

\* Every block of the text, the last one too, is followed by exactly one
\* blank line, and no block text starts or ends with whitespace.
Canonical(x) ==
  /\ x.end = <<"\n", "\n">>
  /\ \A n \in DOMAIN x.seps : x.seps[n] = <<"\n", "\n">>
  /\ \A n \in DOMAIN x.blocks : Strip(x.blocks[n].text) = x.blocks[n].text

\* The text with every block text stripped and one blank line after every
\* block.
Normalised(x) ==
  [blocks |-> [n \in DOMAIN x.blocks |->
                 [x.blocks[n] EXCEPT !.text = Strip(x.blocks[n].text)]],
   seps   |-> [n \in DOMAIN x.seps |-> <<"\n", "\n">>],
   end    |-> <<"\n", "\n">>]

\* C13 (amended): serializing the parsed blocks of a well-formed text gives
\* the text with every block text stripped and exactly one blank line after
\* every block; it gives the text itself when the text has that form.
C13_RoundTrip ==
  fn = "save_srt" =>
    /\ ret = Render(Normalised(arg))
    /\ Canonical(arg) => ret = Render(arg)

\* The round trip was made for a text of two blocks in the canonical form,
\* one of them with two text lines.
C13_Witness ==
  /\ fn = "save_srt"
  /\ Canonical(arg)
  /\ Len(arg.blocks) = 2
  /\ arg.blocks[1].text = <<"g", "\n", "w">>

\* The three ways a run ends.
Completed == InEvents(Log("Translation completed successfully!", 0, 0))
Cancelled == observed # << >>
Fatal == Count("error") > 0

\* C14: every run ends, and when it has ended exactly one of Completed
\* (success message logged), Cancelled (is_cancelled() answered True at a
\* check) and Fatal (error signal emitted) holds, whenever cancel() is
\* called.
C14_OneTerminalState ==
  /\ <>(pc = "done")
  /\ [](pc = "done" =>
          \/ Completed /\ ~Cancelled /\ ~Fatal
          \/ ~Completed /\ Cancelled /\ ~Fatal
          \/ ~Completed /\ ~Cancelled /\ Fatal)

\* cancel() came after the last file: the only check that saw the flag is
\* the one before the success message.
C14_Witness ==
  /\ pc = "done"
  /\ Len(observed) = 1
  /\ observed[1].at = "final_check"
  /\ ~Completed

\* The HTTP attempts of the run, in the order they were issued.
AllPosts == SelectSeq(net, LAMBDA e : e.op = "post")
InFlight == { n \in 1..Len(net) : net[n].op = "post" /\ net[n].outcome = "pending" }

\* C15: at most one post is in flight, and it is the latest network
\* operation, the worker waiting for it; the posts are issued in the order
\* of files, then blocks, then attempts; a post for another block follows
\* only a post that ended its call (a 200 answer, or the failure of the last
\* attempt), and a further attempt for the same block follows only a failed
\* attempt, with the next attempt number.
C15_OneCallInOrder ==
  /\ Cardinality(InFlight) <= 1
  /\ \A n \in InFlight : n = Len(net) /\ pc = "wait"
  /\ \A a \in 1..(Len(AllPosts) - 1) :
       LET p == AllPosts[a]
           q == AllPosts[a + 1]
       IN IF p.file = q.file /\ p.block = q.block
          THEN p.outcome \in FailKinds /\ q.attempt = p.attempt + 1
          ELSE /\ p.file < q.file \/ (p.file = q.file /\ p.block < q.block)
               /\ q.attempt = 0
               /\ \/ p.outcome = "ok"
                  \/ p.outcome \in FailKinds /\ p.attempt = RETRY_COUNT

\* Posts were made for two files, the first file's call having used up its
\* attempts, and a post is in flight.
C15_Witness ==
  /\ pc = "wait"
  /\ idx = 1
  /\ \E n \in 1..Len(net) :
       net[n].file = 0 /\ net[n].attempt = RETRY_COUNT /\ net[n].outcome \in FailKinds

\* C16 as stated: the step that ends an HTTP attempt, with a 200 answer or
\* with a failure, emits a log event; for a failure it is the "API error"
\* (HTTP status) or the "Network error" (exception) event of that attempt.
C16_Original ==
  [][(pc = "wait" /\ pc' # "wait") =>
       /\ Len(events') = Len(events) + 1
       /\ events'[Len(events')].sig = "log"
       /\ net'[Len(net')].outcome = "status" =>
            events'[Len(events')] = Log("API error", attempt + 1, RETRY_COUNT + 1)
       /\ net'[Len(net')].outcome = "exception" =>
            events'[Len(events')] = Log("Network error", attempt + 1, RETRY_COUNT + 1)]_vars

C18_Original ==
  \A n \in 1..Len(net) :
    net[n].cancel => \A m \in (n + 1)..Len(net) : net[m].op # "post"

\* C19: once is_cancelled() answered True at a block checkpoint of file k,
\* save_srt is never called for file k and its target path stays absent, the
\* run does not move on to another file, and for every later file of the job
\* nothing is logged, checked, read, sent or written.
C19_AbortsRun ==
  \A n \in 1..Len(observed) :
    observed[n].at = "for_block" =>
      LET k == observed[n].file
      IN /\ idx = k
         /\ pc \in {"file_after", "final_progress", "final_check", "finally", "done"}
         /\ \A m \in 1..Len(opened) : opened[m].file # k
         /\ get_target_path(files[k + 1], target_lang) \notin DOMAIN fs
         /\ ~InEvents(Log("Saved translated file", k, 0))
         /\ \A j \in FileIdx :
              j > k =>
                /\ ~InEvents(Log("Processing file", j, 0))
                /\ j \notin exists_seen
                /\ j \notin raised
                /\ \A m \in 1..Len(net) : net[m].file # j
                /\ \A m \in 1..Len(opened) : opened[m].file # j
                /\ get_target_path(files[j + 1], target_lang) \notin DOMAIN fs

\* The run ended after cancellation was seen at the second block of the
\* first of two files, the first block already translated.
C19_Witness ==
  /\ pc = "done"
  /\ Len(files) = 2
  /\ \E n \in 1..Len(observed) :
       /\ observed[n].at = "for_block"
       /\ observed[n].file = 0
       /\ observed[n].block = 1
  /\ \E m \in 1..Len(net) : net[m].outcome = "ok" /\ net[m].reply # << >>

\* The placeholder tokens at the positions of a text where one stands.
TokensIn(t) ==
  { SubSeq(t, p, p + 2) : p \in { q \in 1..(Len(t) - 2) : HasReserved(SubSeq(t, q, q + 2)) } }

\* C20 as stated: after protect_content(t), each placeholder token in the
\* protected text has exactly one entry in the map, the token of every map
\* entry occurs in the protected text, and no token of the map occurs in t.
C20_Original ==
  fn = "protect_content" =>
    /\ \A tok \in TokensIn(ret.text) :
         Cardinality({ k \in DOMAIN ret.map : ret.map[k][1] = tok }) = 1
    /\ \A k \in DOMAIN ret.map : Contains(ret.text, ret.map[k][1])
    /\ \A k \in DOMAIN ret.map : ~Contains(arg, ret.map[k][1])

\* The map entries whose placeholder is of one family, in map order.
FamilyOf(map, names) ==
  SelectSeq(map, LAMBDA e : e[1][2] \in { names[n] : n \in DOMAIN names })

\* C21 as stated: the k-th entry of each family (timecodes, opening tags,
\* closing tags) carries the number k-1 of that family's own counter.
C21_Original ==
  fn = "protect_content" =>
    /\ \A k \in DOMAIN FamilyOf(ret.map, TimeNames) :
         FamilyOf(ret.map, TimeNames)[k][1] = TimePlaceholder(k - 1)
    /\ \A k \in DOMAIN FamilyOf(ret.map, BTagNames) :
         FamilyOf(ret.map, BTagNames)[k][1] = BTagPlaceholder(k - 1)
    /\ \A k \in DOMAIN FamilyOf(ret.map, ETagNames) :
         FamilyOf(ret.map, ETagNames)[k][1] = ETagPlaceholder(k - 1)

\* C21 (amended): the map of protect_content(t) holds one entry per timecode
\* of t, the k-th keyed <TIME_(k-1)>, then one entry per tag of t, the j-th
\* keyed <ETAG_(j-1)> when the tag starts with "</" and <BTAG_(j-1)>
\* otherwise: opening and closing tags share one counter, which does not
\* count the timecodes.  The result depends on t alone.
C21_Numbering ==
  fn = "protect_content" =>
    LET times == FindTimecodes(arg)
        tags  == FindTags(arg)
    IN /\ Len(ret.map) = Len(times) + Len(tags)
       /\ \A k \in 1..Len(times) :
            ret.map[k] = << TimePlaceholder(k - 1), << times[k] >> >>
       /\ \A j \in 1..Len(tags) :
            ret.map[Len(times) + j] =
              << IF tags[j][2] = "/" THEN ETagPlaceholder(j - 1)
                                     ELSE BTagPlaceholder(j - 1),
                 tags[j] >>

\* protect_content was applied to a text with an opening tag, a timecode, a
\* closing tag and a second timecode: the closing tag is numbered 1.
C21_Witness ==
  /\ fn = "protect_content"
  /\ arg = <<"<", "i", ">", "T1", "<", "/", "i", ">", "T2">>
  /\ ret.map = << << TimePlaceholder(0), <<"T1">> >>, << TimePlaceholder(1), <<"T2">> >>,
                  << BTagPlaceholder(0), <<"<", "i", ">">> >>,
                  << ETagPlaceholder(1), <<"<", "/", "i", ">">> >> >>

\* A tag (a hit of the tag pattern) holds a timecode.
TagHoldsTime(t) ==
  \E j \in DOMAIN FindTags(t) : FindTimecodes(FindTags(t)[j]) # << >>

\* The text with every placeholder of the map blanked out: what is left of
\* the original text.
Unshielded(st) ==
  RestoreFrom(st.text, [k \in DOMAIN st.map |-> << st.map[k][1], <<"_">> >>], 1)

\* C22 as stated: the protected text, which is the user message of the
\* request, holds no timecode and, the placeholders of the map aside, nothing
\* that the tag pattern matches.
C22_Original ==
  fn = "protect_content" =>
    /\ FindTimecodes(ret.text) = << >>
    /\ FindTags(Unshielded(ret)) = << >>

\* C23: the file written for input k, read back with parse_srt, holds as
\* many blocks as parse_srt gave for the input, and its i-th block has the
\* index and the time range of the i-th input block; the blocks handed to
\* save_srt are the written ones.
C23_SameStructure ==
  \A n \in 1..Len(opened) :
    opened[n].ok =>
      LET k   == opened[n].file
          out == parse_srt(fs[opened[n].path])
      IN /\ fs[opened[n].path] = save_srt(opened[n].blocks)
         /\ Len(out) = Len(ParsedBlocks(k))
         /\ \A i \in 1..Len(out) :
              /\ out[i].index = ParsedBlocks(k)[i].index
              /\ out[i].timecode = ParsedBlocks(k)[i].timecode

\* A file of two blocks was written after the first block was translated
\* and the second was given up.
C23_Witness ==
  /\ pc = "done"
  /\ \E n \in 1..Len(opened) :
       /\ opened[n].ok
       /\ Len(ParsedBlocks(opened[n].file)) = 2
       /\ opened[n].blocks[1].text # ParsedBlocks(opened[n].file)[1].text
       /\ opened[n].blocks[2].text = ParsedBlocks(opened[n].file)[2].text
       /\ InEvents(Log("Skipping block due to translation failure", 2, 0))

\* C24: when every post is answered or times out and every sleep ends, the
\* finished signal is emitted in every run, and from any moment at which
\* cancel() has been called the worker goes on to the end of run(), the
\* finished signal emitted.
C24_EventuallyReleased ==
  /\ <>InEvents(Finished)
  /\ is_cancelled ~> (pc = "done" /\ InEvents(Finished))

\* The run ended with the finished signal after a block checkpoint saw the
\* flag that cancel() set while the worker was busy with a block.
C24_Witness ==
  /\ pc = "done"
  /\ is_cancelled
  /\ InEvents(Finished)
  /\ Len(observed) >= 1
  /\ observed[1].at = "for_block"
  /\ observed[1].block = 1

\* C25: no step of the worker changes or removes a file that exists, and
\* every call of save_srt is for a path that does not exist at the call: no
\* input of the job is overwritten, and a target that several inputs share
\* is written at most once.
C25_NeverOverwrites ==
  [][/\ \A p \in DOMAIN fs : p \in DOMAIN fs' /\ fs'[p] = fs[p]
     /\ Len(opened') > Len(opened) =>
          /\ opened'[Len(opened')].path \notin DOMAIN fs
          /\ \A n \in 1..Len(opened) :
               opened[n].ok => opened[n].path # opened'[Len(opened')].path]_vars

\* a.srt was translated and written to a.sv.srt; a.en.srt, which maps to
\* the same target, was then skipped because the target exists.
C25_Witness ==
  /\ pc = "done"
  /\ files = << NameA, NameAEn >>
  /\ \E n \in 1..Len(opened) : opened[n].file = 0 /\ opened[n].ok
  /\ \A n \in 1..Len(opened) : opened[n].file = 0
  /\ exists_seen = {1}
  /\ InEvents(Log("Skipping - target already exists", 1, 0))

\* C26: every progress event (done, total) has total = number of files of
\* the job and 0 <= done <= total; the done values never decrease; the
\* "Processing file" log of file k is followed at once by the progress event
\* (k, total); and the n-th progress event is (n - 1, total), the one for
\* the start of file n - 1, unless it is the closing event (total, total).
C26_ProgressCounts ==
  /\ \A n \in 1..Len(ProgressEvents) :
       /\ ProgressEvents[n].b = Len(files)
       /\ 0 <= ProgressEvents[n].a
       /\ ProgressEvents[n].a <= ProgressEvents[n].b
       /\ \A m \in 1..n : ProgressEvents[m].a <= ProgressEvents[n].a
       /\ \/ ProgressEvents[n].a = n - 1
          \/ /\ n = Len(ProgressEvents)
             /\ ProgressEvents[n].a = Len(files)
             /\ pc \in {"final_check", "finally", "done"}
  /\ \A n \in 1..Len(events) :
       (events[n].sig = "log" /\ events[n].msg = "Processing file") =>
         /\ n < Len(events)
         /\ events[n + 1] = Progress(events[n].a, Len(files))

\* A job of two files ran to its end: the progress events are (0, 2),
\* (1, 2) and the closing (2, 2).
C26_Witness ==
  /\ pc = "done"
  /\ ProgressEvents = << Progress(0, 2), Progress(1, 2), Progress(2, 2) >>

====
